---- MODULE Spec2Model ----
(***************************************************************************)
(* Model of fecpp.cpp: forward error correction over GF(2^8) with a        *)
(* systematic Vandermonde code.  Arrays are functions on 0..len-1 so that  *)
(* every index expression reads as it does in the C++ source.              *)
(***************************************************************************)
EXTENDS Integers, Sequences, FiniteSets, TLC

(***************************************************************************)
(* Bounds of the model.                                                    *)
(***************************************************************************)
MaxK == 3
MaxN == 5
MaxBlock == 2
MaxThreads == 2
TableDim == 3
InputSeeds == {0, 101}

(***************************************************************************)
(* The constant tables of GF(2^8), lines 31-132.                           *)
(***************************************************************************)
GF_EXP ==
  <<
    1, 2, 4, 8, 16, 32, 64, 128, 29, 58, 116, 232, 205, 135, 19, 38,
    76, 152, 45, 90, 180, 117, 234, 201, 143, 3, 6, 12, 24, 48, 96, 192,
    157, 39, 78, 156, 37, 74, 148, 53, 106, 212, 181, 119, 238, 193, 159, 35,
    70, 140, 5, 10, 20, 40, 80, 160, 93, 186, 105, 210, 185, 111, 222, 161,
    95, 190, 97, 194, 153, 47, 94, 188, 101, 202, 137, 15, 30, 60, 120, 240,
    253, 231, 211, 187, 107, 214, 177, 127, 254, 225, 223, 163, 91, 182, 113, 226,
    217, 175, 67, 134, 17, 34, 68, 136, 13, 26, 52, 104, 208, 189, 103, 206,
    129, 31, 62, 124, 248, 237, 199, 147, 59, 118, 236, 197, 151, 51, 102, 204,
    133, 23, 46, 92, 184, 109, 218, 169, 79, 158, 33, 66, 132, 21, 42, 84,
    168, 77, 154, 41, 82, 164, 85, 170, 73, 146, 57, 114, 228, 213, 183, 115,
    230, 209, 191, 99, 198, 145, 63, 126, 252, 229, 215, 179, 123, 246, 241, 255,
    227, 219, 171, 75, 150, 49, 98, 196, 149, 55, 110, 220, 165, 87, 174, 65,
    130, 25, 50, 100, 200, 141, 7, 14, 28, 56, 112, 224, 221, 167, 83, 166,
    81, 162, 89, 178, 121, 242, 249, 239, 195, 155, 43, 86, 172, 69, 138, 9,
    18, 36, 72, 144, 61, 122, 244, 245, 247, 243, 251, 235, 203, 139, 11, 22,
    44, 88, 176, 125, 250, 233, 207, 131, 27, 54, 108, 216, 173, 71, 142, 1,
    2, 4, 8, 16, 32, 64, 128, 29, 58, 116, 232, 205, 135, 19, 38, 76,
    152, 45, 90, 180, 117, 234, 201, 143, 3, 6, 12, 24, 48, 96, 192, 157,
    39, 78, 156, 37, 74, 148, 53, 106, 212, 181, 119, 238, 193, 159, 35, 70,
    140, 5, 10, 20, 40, 80, 160, 93, 186, 105, 210, 185, 111, 222, 161, 95,
    190, 97, 194, 153, 47, 94, 188, 101, 202, 137, 15, 30, 60, 120, 240, 253,
    231, 211, 187, 107, 214, 177, 127, 254, 225, 223, 163, 91, 182, 113, 226, 217,
    175, 67, 134, 17, 34, 68, 136, 13, 26, 52, 104, 208, 189, 103, 206, 129,
    31, 62, 124, 248, 237, 199, 147, 59, 118, 236, 197, 151, 51, 102, 204, 133,
    23, 46, 92, 184, 109, 218, 169, 79, 158, 33, 66, 132, 21, 42, 84, 168,
    77, 154, 41, 82, 164, 85, 170, 73, 146, 57, 114, 228, 213, 183, 115, 230,
    209, 191, 99, 198, 145, 63, 126, 252, 229, 215, 179, 123, 246, 241, 255, 227,
    219, 171, 75, 150, 49, 98, 196, 149, 55, 110, 220, 165, 87, 174, 65, 130,
    25, 50, 100, 200, 141, 7, 14, 28, 56, 112, 224, 221, 167, 83, 166, 81,
    162, 89, 178, 121, 242, 249, 239, 195, 155, 43, 86, 172, 69, 138, 9, 18,
    36, 72, 144, 61, 122, 244, 245, 247, 243, 251, 235, 203, 139, 11, 22, 44,
    88, 176, 125, 250, 233, 207, 131, 27, 54, 108, 216, 173, 71, 142
  >>

GF_LOG ==
  <<
    255, 0, 1, 25, 2, 50, 26, 198, 3, 223, 51, 238, 27, 104, 199, 75,
    4, 100, 224, 14, 52, 141, 239, 129, 28, 193, 105, 248, 200, 8, 76, 113,
    5, 138, 101, 47, 225, 36, 15, 33, 53, 147, 142, 218, 240, 18, 130, 69,
    29, 181, 194, 125, 106, 39, 249, 185, 201, 154, 9, 120, 77, 228, 114, 166,
    6, 191, 139, 98, 102, 221, 48, 253, 226, 152, 37, 179, 16, 145, 34, 136,
    54, 208, 148, 206, 143, 150, 219, 189, 241, 210, 19, 92, 131, 56, 70, 64,
    30, 66, 182, 163, 195, 72, 126, 110, 107, 58, 40, 84, 250, 133, 186, 61,
    202, 94, 155, 159, 10, 21, 121, 43, 78, 212, 229, 172, 115, 243, 167, 87,
    7, 112, 192, 247, 140, 128, 99, 13, 103, 74, 222, 237, 49, 197, 254, 24,
    227, 165, 153, 119, 38, 184, 180, 124, 17, 68, 146, 217, 35, 32, 137, 46,
    55, 63, 209, 91, 149, 188, 207, 205, 144, 135, 151, 178, 220, 252, 190, 97,
    242, 86, 211, 171, 20, 42, 93, 158, 132, 60, 57, 83, 71, 109, 65, 162,
    31, 45, 67, 216, 183, 123, 164, 118, 196, 23, 73, 236, 127, 12, 111, 246,
    108, 161, 59, 82, 41, 157, 85, 170, 251, 96, 134, 177, 187, 204, 62, 90,
    203, 89, 95, 176, 156, 169, 160, 81, 11, 245, 22, 235, 122, 117, 44, 215,
    79, 174, 213, 233, 230, 231, 173, 232, 116, 214, 244, 234, 168, 80, 88, 175
  >>

GF_INVERSE ==
  <<
    0, 1, 142, 244, 71, 167, 122, 186, 173, 157, 221, 152, 61, 170, 93, 150,
    216, 114, 192, 88, 224, 62, 76, 102, 144, 222, 85, 128, 160, 131, 75, 42,
    108, 237, 57, 81, 96, 86, 44, 138, 112, 208, 31, 74, 38, 139, 51, 110,
    72, 137, 111, 46, 164, 195, 64, 94, 80, 34, 207, 169, 171, 12, 21, 225,
    54, 95, 248, 213, 146, 78, 166, 4, 48, 136, 43, 30, 22, 103, 69, 147,
    56, 35, 104, 140, 129, 26, 37, 97, 19, 193, 203, 99, 151, 14, 55, 65,
    36, 87, 202, 91, 185, 196, 23, 77, 82, 141, 239, 179, 32, 236, 47, 50,
    40, 209, 17, 217, 233, 251, 218, 121, 219, 119, 6, 187, 132, 205, 254, 252,
    27, 84, 161, 29, 124, 204, 228, 176, 73, 49, 39, 45, 83, 105, 2, 245,
    24, 223, 68, 79, 155, 188, 15, 92, 11, 220, 189, 148, 172, 9, 199, 162,
    28, 130, 159, 198, 52, 194, 70, 5, 206, 59, 13, 60, 156, 8, 190, 183,
    135, 229, 238, 107, 235, 242, 191, 175, 197, 100, 7, 123, 149, 154, 174, 182,
    18, 89, 165, 53, 101, 184, 163, 158, 210, 247, 98, 90, 133, 125, 168, 58,
    41, 113, 200, 246, 249, 67, 215, 214, 16, 115, 118, 120, 153, 10, 25, 145,
    20, 63, 230, 240, 134, 177, 226, 241, 250, 116, 243, 180, 109, 33, 178, 106,
    227, 231, 181, 234, 3, 143, 211, 201, 66, 212, 232, 117, 127, 255, 126, 253
  >>

Exp(i) == GF_EXP[i + 1]

Log(a) == GF_LOG[a + 1]

Inverse(a) == GF_INVERSE[a + 1]

(* The ^ operator of C++ on two bytes. *)
RECURSIVE Xor(_, _)
Xor(a, b) ==
  IF a = 0 THEN b
  ELSE IF b = 0 THEN a
  ELSE (((a % 2) + (b % 2)) % 2) + 2 * Xor(a \div 2, b \div 2)

(* The entry the first loop of init_fec stores at [i][j] (line 146). *)
RawEntry(i, j) == Exp((Log(i) + Log(j)) % 255)

(* GF_MUL_TABLE[a][b] once init_fec has run to completion (lines 144-149). *)
Mul(a, b) == IF a = 0 \/ b = 0 THEN 0 ELSE RawEntry(a, b)

(* std::vector<byte>(len): value-initialised storage. *)
Zeros(len) == [j \in 0..(len - 1) |-> 0]

(***************************************************************************)
(* addmul, lines 164-195: dst[] = dst[] + c * src[] over sz bytes, the     *)
(* main loop unrolled 16 times and a byte-wise tail.  Positions are        *)
(* offsets from the dst the call was given: lim is offset sz - 16 + 1,     *)
(* below 0 when sz < 15.  For a dst inside a buffer that address still     *)
(* lies below dst and the unrolled loop is skipped.  A buffer of no bytes  *)
(* is an empty std::vector, whose &v[0] is the null pointer: then          *)
(* &dst[sz - 16 + 1] is formed below address 0 (undefined), compares above *)
(* dst where addresses wrap, and the unrolled loop runs on address 0.      *)
(***************************************************************************)
(* Line 170 with dst the null pointer and sz < 15, behind the test of      *)
(* line 166: the call may fault instead of returning.                      *)
AddmulFaults(dst, c, sz) == c # 0 /\ DOMAIN dst = {} /\ sz - 16 + 1 < 0

RECURSIVE AddmulUnrolled(_, _, _, _, _)
AddmulUnrolled(dst, src, c, pos, sz) ==
  IF pos < sz - 16 + 1
  THEN AddmulUnrolled(
         [j \in DOMAIN dst |->
            IF j >= pos /\ j < pos + 16 THEN Xor(dst[j], Mul(c, src[j])) ELSE dst[j]],
         src, c, pos + 16, sz)
  ELSE [d |-> dst, pos |-> pos]

RECURSIVE AddmulTail(_, _, _, _, _)
AddmulTail(dst, src, c, pos, sz) ==
  IF pos < sz
  THEN AddmulTail([dst EXCEPT ![pos] = Xor(dst[pos], Mul(c, src[pos]))],
                  src, c, pos + 1, sz)
  ELSE dst

addmulAssign(dst, src, c, sz) ==
  IF c = 0 THEN dst ELSE [j \in DOMAIN dst |-> IF j < sz THEN Mul(c, src[j]) ELSE dst[j]]

addmul(dst, src, c, sz) ==
  IF c = 0 THEN dst
  ELSE LET u == AddmulUnrolled(dst, src, c, 0, sz)
       IN  AddmulTail(u.d, src, c, u.pos, sz)

(***************************************************************************)
(* create_inverted_vdm, lines 358-405.                                     *)
(***************************************************************************)
(* One pass of the coefficient recurrence, lines 381-385. *)
VdmCoeffStep(c, i, k) ==
  [j \in 0..(k - 1) |->
     IF j = k - 1 THEN Xor(c[j], Exp(i))
     ELSE IF j >= k - 1 - (i - 1) THEN Xor(c[j], Mul(Exp(i), c[j + 1]))
     ELSE c[j]]

RECURSIVE VdmCoeffs(_, _, _)
VdmCoeffs(c, i, k) ==
  IF i < k THEN VdmCoeffs(VdmCoeffStep(c, i, k), i + 1, k) ELSE c

(* Synthetic division for one row, lines 393-399: the state is b and t. *)
RECURSIVE VdmDivide(_, _, _, _, _)
VdmDivide(b, t, c, p, i) ==
  IF i >= 0
  THEN LET bi == Xor(c[i + 1], Mul(p, b[i + 1]))
       IN  VdmDivide([b EXCEPT ![i] = bi], Xor(bi, Mul(p, t)), c, p, i - 1)
  ELSE [b |-> b, t |-> t]

create_inverted_vdm(k) ==
  IF k = 1 THEN [j \in 0..0 |-> 1]
  ELSE LET c == VdmCoeffs(Zeros(k), 1, k)
           rowres(row) ==
             VdmDivide([Zeros(k) EXCEPT ![k - 1] = 1], 1, c,
                       IF row = 0 THEN 0 ELSE Exp(row), k - 2)
           res == [row \in 0..(k - 1) |-> rowres(row)]
       IN  [x \in 0..(k * k - 1) |->
              LET col == x \div k
                  row == x % k
              IN  Mul(Inverse(res[row].t), res[row].b[col])]

(***************************************************************************)
(* fec_code::fec_code, lines 418-466.                                      *)
(***************************************************************************)
(* tmp_m after lines 440-443. *)
TmpMatrixSum(k, n) ==
  LET vdm == create_inverted_vdm(k)
  IN  [x \in 0..(n * k - 1) |->
         IF x < k * k THEN vdm[x] ELSE Exp(((x \div k) + (x % k)) % 255)]

TmpMatrix(k, n) ==
  LET vdm == create_inverted_vdm(k)
  IN  [x \in 0..(n * k - 1) |->
         IF x < k * k THEN vdm[x] ELSE Exp(((x \div k) * (x % k)) % 255)]

RECURSIVE DotProduct(_, _, _, _, _)
DotProduct(tmp, row, col, i, k) ==
  IF i < k
  THEN Xor(Mul(tmp[row + i], tmp[col + i * k]), DotProduct(tmp, row, col, i + 1, k))
  ELSE 0

(* enc_matrix after lines 448-465. *)
EncMatrix(k, n) ==
  LET tmp == TmpMatrix(k, n)
  IN  [x \in 0..(n * k - 1) |->
         IF x < k * k
         THEN (IF x \div k = x % k THEN 1 ELSE 0)
         ELSE DotProduct(tmp, (x \div k) * k, x % k, 0, k)]

(***************************************************************************)
(* invert_matrix, lines 218-344 (Gauss-Jordan on a k*k matrix stored row   *)
(* by row).                                                                *)
(***************************************************************************)
(* The (row, i) pairs the scan of lines 239-252 accepts. *)
PivotCandidates(src, ipiv, k) ==
  {p \in (0..(k - 1)) \X (0..(k - 1)) :
     ~ipiv[p[1]] /\ ~ipiv[p[2]] /\ src[p[1] * k + p[2]] # 0}

(* pivot_searcher::operator(), lines 229-255. first and second are the     *)
(* members of the returned pair; found = FALSE stands for the throw.       *)
pivot_search(col, src, ipiv, k) ==
  IF ~ipiv[col] /\ src[col * k + col] # 0
  THEN [found |-> TRUE, first |-> col, second |-> col,
        ipiv |-> [ipiv EXCEPT ![col] = TRUE]]
  ELSE LET cand == PivotCandidates(src, ipiv, k)
       IN  IF cand = {}
           THEN [found |-> FALSE, first |-> 0, second |-> 0, ipiv |-> ipiv]
           ELSE LET p == CHOOSE p \in cand :
                           \A q \in cand :
                             p[1] < q[1] \/ (p[1] = q[1] /\ p[2] <= q[2])
                IN  [found |-> TRUE, first |-> p[1], second |-> p[2],
                     ipiv |-> [ipiv EXCEPT ![p[2]] = TRUE]]

(* Lines 281-285. *)
SwapRows(src, a, b, k) ==
  [x \in DOMAIN src |->
     IF x \div k = a THEN src[b * k + (x % k)]
     ELSE IF x \div k = b THEN src[a * k + (x % k)]
     ELSE src[x]]

(* Lines 340-341. *)
SwapCols(src, a, b, k) ==
  [x \in DOMAIN src |->
     IF x % k = a THEN src[(x \div k) * k + b]
     ELSE IF x % k = b THEN src[(x \div k) * k + a]
     ELSE src[x]]

(* Lines 295-308: scale the pivot row by the inverse of the pivot. *)
NormalizeRowKeepPivot(src, icol, k) ==
  LET c == src[icol * k + icol]
  IN  IF c = 1 THEN src
      ELSE [x \in DOMAIN src |->
              IF x \div k # icol THEN src[x] ELSE Mul(Inverse(c), src[x])]

NormalizeRow(src, icol, k) ==
  LET c == src[icol * k + icol]
  IN  IF c = 1 THEN src
      ELSE [x \in DOMAIN src |->
              IF x \div k # icol THEN src[x]
              ELSE IF x % k = icol THEN Mul(Inverse(c), 1)
              ELSE Mul(Inverse(c), src[x])]

(* Lines 317-333: remove multiples of the pivot row from the other rows. *)
Eliminate(src, icol, k) ==
  LET pivot_row == [j \in 0..(k - 1) |-> src[icol * k + j]]
      id_row == [j \in 0..(k - 1) |-> IF j = icol THEN 1 ELSE 0]
      newrow(i) ==
        addmul([j \in 0..(k - 1) |-> IF j = icol THEN 0 ELSE src[i * k + j]],
               pivot_row, src[i * k + icol], k)
  IN  IF pivot_row = id_row THEN src
      ELSE [x \in DOMAIN src |->
              IF x \div k = icol THEN src[x] ELSE newrow(x \div k)[x % k]]

(* One iteration of the loop of lines 264-334. *)
InvertColumn(st, col, k) ==
  LET ps == pivot_search(col, st.src, st.ipiv, k)
      icol == ps.first
      irow == ps.second
      swapped == IF irow # icol THEN SwapRows(st.src, irow, icol, k) ELSE st.src
  IN  IF ~ps.found
      THEN [st EXCEPT !.err = "pivot not found"]
      ELSE IF swapped[icol * k + icol] = 0
      THEN [src |-> swapped, ipiv |-> ps.ipiv,
            indxr |-> [st.indxr EXCEPT ![col] = irow],
            indxc |-> [st.indxc EXCEPT ![col] = icol],
            err |-> "singular matrix"]
      ELSE [src |-> Eliminate(NormalizeRow(swapped, icol, k), icol, k),
            ipiv |-> ps.ipiv,
            indxr |-> [st.indxr EXCEPT ![col] = irow],
            indxc |-> [st.indxc EXCEPT ![col] = icol],
            err |-> "none"]

RECURSIVE InvertColumns(_, _, _)
InvertColumns(st, col, k) ==
  IF col = k \/ st.err # "none" THEN st
  ELSE InvertColumns(InvertColumn(st, col, k), col + 1, k)

(* Lines 336-343: undo the column swaps. *)
RECURSIVE Unpermute(_, _, _, _, _)
Unpermute(src, indxr, indxc, i, k) ==
  IF i = k THEN src
  ELSE Unpermute(IF indxr[i] # indxc[i]
                 THEN SwapCols(src, indxr[i], indxc[i], k) ELSE src,
                 indxr, indxc, i + 1, k)

(* invert_matrix: the matrix left in src and the exception raised, if any. *)
invert_matrix(src, k) ==
  LET st == InvertColumns([src |-> src,
                           ipiv |-> [j \in 0..(k - 1) |-> FALSE],
                           indxr |-> [j \in 0..(k - 1) |-> 0],
                           indxc |-> [j \in 0..(k - 1) |-> 0],
                           err |-> "none"], 0, k)
  IN  IF st.err # "none" THEN [src |-> st.src, err |-> st.err]
      ELSE [src |-> Unpermute(st.src, st.indxr, st.indxc, 0, k), err |-> "none"]

(* Product of two k*k matrices over GF(2^8); used to state what an inverse is. *)
RECURSIVE MatMulEntry(_, _, _, _, _, _)
MatMulEntry(a, b, i, j, t, k) ==
  IF t = k THEN 0
  ELSE Xor(Mul(a[i * k + t], b[t * k + j]), MatMulEntry(a, b, i, j, t + 1, k))

MatMul(a, b, k) ==
  [x \in 0..(k * k - 1) |-> MatMulEntry(a, b, x \div k, x % k, 0, k)]

Identity(k) == [x \in 0..(k * k - 1) |-> IF x \div k = x % k THEN 1 ELSE 0]

(***************************************************************************)
(* State.                                                                  *)
(*   cfg, k, n, enc_matrix : the fec_code object and how its construction  *)
(*                           ended                                         *)
(*   input, enc, encOut    : one encode call, its outcome and the calls    *)
(*                           made to its output callback                   *)
(*   shares .. decOut      : one decode call, its locals and the calls     *)
(*                           made to its output callback                   *)
(*   fec_initialized, GF_MUL_TABLE, tpc, ti, did_init : init_fec run by     *)
(*                           several threads                               *)
(*   inv_k, inv_src, inv_res : one call of invert_matrix on its own        *)
(***************************************************************************)
VARIABLES cfg, k, n, enc_matrix,
          input, enc, encOut,
          shares, share_size, m_dec, indexes, sharesv, di, b_iter, e_iter,
          dpc, decOut,
          fec_initialized, GF_MUL_TABLE, tpc, ti, did_init,
          inv_k, inv_src, inv_res,
          am_dst, am_src, am_c, am_sz, am_res, am_pc

cfgVars == <<cfg, k, n, enc_matrix>>
encVars == <<input, enc, encOut>>
decVars == <<shares, share_size, m_dec, indexes, sharesv, di, b_iter, e_iter,
             dpc, decOut>>
initVars == <<fec_initialized, GF_MUL_TABLE, tpc, ti, did_init>>
invVars == <<inv_k, inv_src, inv_res>>
amVars == <<am_dst, am_src, am_c, am_sz, am_res, am_pc>>
vars == <<cfgVars, encVars, decVars, initVars, invVars, amVars>>

Threads == 1..MaxThreads

Min(a, b) == IF a <= b THEN a ELSE b

(* A decode call is between its entry and its return. *)
DecodeRunning == dpc \in {"select", "invert", "recover"}

(* GF_MUL_TABLE as static storage: zero before init_fec (line 134). *)
ZeroTable == [i \in 0..(TableDim - 1) |-> [j \in 0..(TableDim - 1) |-> 0]]

(* The (k_arg, n_arg) pairs Construct is tried with. *)
ConstructArgs ==
  ((0..MaxK) \X (0..MaxN)) \cup {<<1, 256>>, <<1, 257>>, <<257, 256>>, <<257, 257>>}

(* The input buffers encode is tried with. *)
InputOf(size, seed) == [j \in 0..(size - 1) |-> (seed + 37 * j) % 256]

(* The share identifiers decode is tried with: n is the smallest invalid one. *)
ShareIds == {id \in (0..Min(n - 1, MaxN)) \cup {n - 1, n} : id >= 0}

(* Iteration order of std::map<size_t, ...>: ascending keys. *)
RECURSIVE SortedKeys(_)
SortedKeys(S) ==
  IF S = {} THEN <<>>
  ELSE LET m == CHOOSE x \in S : \A y \in S : x <= y
       IN  <<m>> \o SortedKeys(S \ {m})

(* input + i*block_size, read for block_size bytes. *)
Slice(buf, i, block_size) == [j \in 0..(block_size - 1) |-> buf[i * block_size + j]]

(* A call of the output callback (size_t, size_t, const byte[], size_t). *)
Emit(id, total, data, len) == [id |-> id, total |-> total, data |-> data, len |-> len]

InitMain ==
  /\ cfg = "none" /\ k = 0 /\ n = 0 /\ enc_matrix = <<>>
  /\ input = <<>> /\ enc = "idle" /\ encOut = <<>>
  /\ shares = <<>> /\ share_size = 0 /\ m_dec = <<>> /\ indexes = <<>>
  /\ sharesv = <<>> /\ di = 0 /\ b_iter = 0 /\ e_iter = 0
  /\ dpc = "idle" /\ decOut = <<>>

InitTables ==
  /\ fec_initialized = FALSE
  /\ GF_MUL_TABLE = ZeroTable
  /\ tpc = [t \in Threads |-> "idle"]
  /\ ti = [t \in Threads |-> 0]
  /\ did_init = [t \in Threads |-> FALSE]

(* inv_res while invert_matrix has not been called. *)
NotInverted == [src |-> <<>>, err |-> "not called"]

InitInvert == inv_k = 0 /\ inv_src = <<>> /\ inv_res = NotInverted

(* No call of addmul on its own is under way. *)
InitAddmul ==
  /\ am_dst = <<>> /\ am_src = <<>> /\ am_c = 0 /\ am_sz = 0
  /\ am_res = <<>> /\ am_pc = "idle"

(***************************************************************************)
(* fec_code::fec_code(k_arg, n_arg), lines 418-466.  k_arg = 0 passes both *)
(* checks; create_inverted_vdm then stores to c[k-1] of an empty vector    *)
(* (line 378): undefined behaviour, which either ends the process or lets  *)
(* the constructor return.                                                 *)
(***************************************************************************)
ConstructCall(k_arg, n_arg) ==
  /\ cfg = "none"
  /\ k' = k_arg
  /\ n' = n_arg
  /\ IF k_arg > 256 \/ n_arg > 256 \/ k_arg > n_arg
     THEN cfg' = "invalid-parameters" /\ enc_matrix' = <<>>
     ELSE IF k_arg = 0
     THEN cfg' \in {"crash", "ok"} /\ enc_matrix' = <<>>
     ELSE cfg' = "ok" /\ enc_matrix' = EncMatrix(k_arg, n_arg)
  /\ UNCHANGED <<encVars, decVars, initVars, invVars, amVars>>

Construct == \E a \in ConstructArgs : ConstructCall(a[1], a[2])

(***************************************************************************)
(* fec_code::encode, lines 471-494.  On an object built with k = 0 the     *)
(* test size % k of line 476 divides by zero, which traps.  With           *)
(* block_size = 0 fec_buf is empty and every call of addmul for a share    *)
(* i >= k is one that may fault.                                           *)
(***************************************************************************)
(* fec_buf after the loop of lines 488-490, from column j on. *)
RECURSIVE EncodeRow(_, _, _, _)
EncodeRow(fec_buf, i, j, block_size) ==
  IF j = k THEN fec_buf
  ELSE EncodeRow(addmul(fec_buf, Slice(input', j, block_size),
                        enc_matrix[i * k + j], block_size),
                 i, j + 1, block_size)

(* The shares i whose loop of lines 488-490 makes a call of addmul that    *)
(* may fault; the shares below i have been emitted by then.                *)
EncodeFaultRows(block_size) ==
  {i \in k..(n - 1) :
     \E j \in 0..(k - 1) :
       AddmulFaults(Zeros(block_size), enc_matrix[i * k + j], block_size)}

EncodeCall(size, seed) ==
  /\ cfg = "ok"
  /\ enc = "idle"
  /\ ~DecodeRunning
  /\ input' = InputOf(size, seed)
  /\ IF k = 0
     THEN enc' = "crash" /\ encOut' = <<>>
     ELSE IF size % k # 0
     THEN enc' = "size-mismatch" /\ encOut' = <<>>
     ELSE LET block_size == size \div k
              emitted ==
                [x \in 1..n |->
                   IF x - 1 < k
                   THEN Emit(x - 1, n, Slice(input', x - 1, block_size), block_size)
                   ELSE Emit(x - 1, n,
                             EncodeRow(Zeros(block_size), x - 1, 0, block_size),
                             block_size)]
          IN  \/ enc' = "done" /\ encOut' = emitted
              \/ \E i \in EncodeFaultRows(block_size) :
                   enc' = "crash" /\ encOut' = SubSeq(emitted, 1, i)
  /\ UNCHANGED <<cfgVars, decVars, initVars, invVars, amVars>>

Encode ==
  \E size \in 0..(Min(k, MaxK) * MaxBlock), seed \in InputSeeds : EncodeCall(size, seed)

(***************************************************************************)
(* fec_code::decode, lines 499-579, one action per loop iteration.         *)
(*   dpc = "select"  : in the loop of lines 523-561, about to run i = di   *)
(*   dpc = "invert"  : about to call invert_matrix (line 567)              *)
(*   dpc = "recover" : in the loop of lines 569-578, about to run i = di   *)
(* The other values of dpc say how the call ended.                         *)
(***************************************************************************)
(* The buffer supplied under identifier id by a caller that feeds decode   *)
(* what encode emitted. *)
ShareData(id) ==
  IF id < n THEN encOut[id + 1].data ELSE Zeros(encOut[1].len)

(* Line 513: fewer than k shares were supplied. *)
TooFewSharesOffByOne(S) == Cardinality(S) + 1 < k

TooFewShares(S) == Cardinality(S) < k

(* Line 551: the share is a copy of an input block. *)
IsPrimaryOffByOne(share_id) == share_id + 1 < k

IsPrimary(share_id) == share_id < k

(* Line 571: position i was filled by a share that is not primary. *)
NeedsRecoveryAlways(i) == TRUE

NeedsRecovery(i) == indexes[i] >= k

(* Lines 513-521: the size check and the locals, for the map sh of shares  *)
(* of size bytes each.  With k = 0 the selection loop has no iteration.    *)
DecodeStartCall(sh, size) ==
  /\ cfg = "ok"
  /\ ~DecodeRunning
  /\ shares' = sh
  /\ share_size' = size
  /\ decOut' = <<>>
  /\ m_dec' = Zeros(k * k)
  /\ indexes' = Zeros(k)
  /\ sharesv' = [j \in 0..(k - 1) |-> <<>>]
  /\ di' = 0
  /\ b_iter' = 0
  /\ e_iter' = 0
  /\ dpc' = IF TooFewShares(DOMAIN sh) THEN "insufficient-shares"
            ELSE IF k = 0 THEN "invert" ELSE "select"
  /\ UNCHANGED <<cfgVars, encVars, initVars, invVars, amVars>>

(* decode called on shares that the encode call of this run emitted. *)
DecodeStart ==
  \E S \in SUBSET ShareIds :
    /\ Cardinality(S) <= k + 1
    /\ enc = "done"
    /\ DecodeStartCall([id \in S |-> ShareData(id)], encOut[1].len)

(* decode called on shares kept from an earlier run: buffers of size bytes *)
(* whose content is not this run's. *)
DecodeStored ==
  \E S \in SUBSET ShareIds, size \in 0..MaxBlock :
    /\ Cardinality(S) <= k + 1
    /\ enc = "idle"
    /\ DecodeStartCall([id \in S |-> Zeros(size)], size)

(* Lines 523-561, iteration i = di.  Dereferencing an iterator that has    *)
(* run off the map is undefined; the size check keeps it from happening.   *)
DecodeSelect ==
  /\ dpc = "select"
  /\ LET i == di
         keys == SortedKeys(DOMAIN shares)
         useB == b_iter < Len(keys) /\ keys[b_iter + 1] = i
         offEnd == b_iter >= Len(keys) \/ (~useB /\ e_iter >= Len(keys))
         share_id == IF useB THEN keys[b_iter + 1] ELSE keys[Len(keys) - e_iter]
         share_data == shares[share_id]
     IN  IF offEnd
         THEN /\ dpc' = "crash"
              /\ UNCHANGED <<m_dec, indexes, sharesv, di, b_iter, e_iter, decOut>>
         ELSE /\ b_iter' = IF useB THEN b_iter + 1 ELSE b_iter
              /\ e_iter' = IF useB THEN e_iter ELSE e_iter + 1
              /\ IF share_id >= n
                 THEN /\ dpc' = "invalid-index"
                      /\ UNCHANGED <<m_dec, indexes, sharesv, di, decOut>>
                 ELSE /\ IF IsPrimary(share_id)
                         THEN /\ m_dec' = [m_dec EXCEPT ![i * (k + 1)] = 1]
                              /\ decOut' = Append(decOut,
                                             Emit(share_id, k, share_data, share_size))
                         ELSE /\ m_dec' = [x \in DOMAIN m_dec |->
                                             IF x \div k = i
                                             THEN enc_matrix[share_id * k + (x % k)]
                                             ELSE m_dec[x]]
                              /\ decOut' = decOut
                      /\ sharesv' = [sharesv EXCEPT ![i] = share_data]
                      /\ indexes' = [indexes EXCEPT ![i] = share_id]
                      /\ di' = i + 1
                      /\ dpc' = IF i + 1 = k THEN "invert" ELSE "select"
  /\ UNCHANGED <<shares, share_size, cfgVars, encVars, initVars, invVars, amVars>>

(* Line 567. *)
DecodeInvert ==
  /\ dpc = "invert"
  /\ LET r == invert_matrix(m_dec, k)
     IN  /\ m_dec' = r.src
         /\ dpc' = IF r.err # "none" THEN r.err
                   ELSE IF k = 0 THEN "done" ELSE "recover"
  /\ di' = 0
  /\ UNCHANGED <<shares, share_size, indexes, sharesv, b_iter, e_iter, decOut,
                 cfgVars, encVars, initVars, invVars, amVars>>

(* buf after the loop of lines 574-575, from column col on. *)
RECURSIVE RecoverRow(_, _, _)
RecoverRow(buf, i, col) ==
  IF col >= k THEN buf
  ELSE RecoverRow(addmul(buf, sharesv[col], m_dec[i * k + col], share_size),
                  i, col + 1)

(* Position i is recovered through a call of addmul that may fault: buf is *)
(* empty when share_size = 0. *)
RecoverFaults(i) ==
  /\ NeedsRecovery(i)
  /\ \E col \in 0..(k - 1) :
       AddmulFaults(Zeros(share_size), m_dec[i * k + col], share_size)

(* Lines 569-578, iteration i = di. *)
DecodeRecover ==
  /\ dpc = "recover"
  /\ LET i == di
     IN  \/ /\ decOut' = IF NeedsRecovery(i)
                         THEN Append(decOut,
                                     Emit(i, k, RecoverRow(Zeros(share_size), i, 0),
                                          share_size))
                         ELSE decOut
            /\ di' = i + 1
            /\ dpc' = IF i + 1 = k THEN "done" ELSE "recover"
         \/ /\ RecoverFaults(i)
            /\ dpc' = "crash"
            /\ UNCHANGED <<decOut, di>>
  /\ UNCHANGED <<shares, share_size, m_dec, indexes, sharesv, b_iter, e_iter,
                 cfgVars, encVars, initVars, invVars, amVars>>

Init == InitMain /\ InitTables /\ InitInvert /\ InitAddmul

Next ==
  \/ Construct
  \/ Encode
  \/ DecodeStart
  \/ DecodeStored
  \/ DecodeSelect
  \/ DecodeInvert
  \/ DecodeRecover

Spec == Init /\ [][Next]_vars

(***************************************************************************)
(* Properties of construction, encode and decode.                          *)
(***************************************************************************)
(* The identifiers supplied to the decode call. *)
Supplied == DOMAIN shares

AllValid == \A id \in Supplied : id < n

DecodeCalled == dpc # "idle"

(* The positions of decOut that carry logical position i. *)
EmittedAt(i) == {x \in 1..Len(decOut) : decOut[x].id = i}

(* The decode call was fed shares that the encode call emitted, each under *)
(* the index encode gave it. *)
FedFromEncode ==
  /\ enc = "done"
  /\ DecodeCalled
  /\ AllValid
  /\ share_size = encOut[1].len
  /\ \A id \in Supplied : shares[id] = encOut[id + 1].data

(* What C1 says of decode: fed exactly k distinct shares emitted by encode *)
(* it does not fail, nothing it emits differs from the slice of its        *)
(* position, and when it is done it has emitted every slice.               *)
DecodeReproduces ==
  (FedFromEncode /\ Cardinality(Supplied) = k) =>
    /\ dpc \in {"select", "invert", "recover", "done"}
    /\ \A x \in 1..Len(decOut) :
         decOut[x].data = Slice(input, decOut[x].id, share_size)
    /\ dpc = "done" =>
         \A i \in 0..(k - 1) :
           \E x \in EmittedAt(i) : decOut[x].data = Slice(input, i, share_size)

(* C1 as stated: round trip.  On every configuration encode of an input of *)
(* k * block_size bytes emits its n shares, and decode fed exactly k       *)
(* distinct ones of them, each under the index encode gave it, emits for   *)
(* every position i < k the i-th slice of the input.                       *)
RoundTrip ==
  /\ (enc # "idle" /\ k >= 1 /\ Cardinality(DOMAIN input) % k = 0) => enc = "done"
  /\ DecodeReproduces

(* The round trip on inputs of at least k bytes (block_size >= 1). *)
RoundTripNonEmpty == Cardinality(DOMAIN input) >= 1 => RoundTrip

RoundTripWitness ==
  /\ dpc = "done"
  /\ Cardinality(Supplied) = k
  /\ FedFromEncode
  /\ Cardinality({id \in Supplied : id >= k}) >= 2
  /\ share_size >= 2
  /\ \E i \in 0..(k - 1) : Slice(input, i, share_size) # Zeros(share_size)

(* The byte at offset b of share j as the encoding matrix defines it: the  *)
(* XOR over c in [0,k) of mul(enc_matrix[j][c], input_block_c[b]).         *)
RECURSIVE RefShareByte(_, _, _, _)
RefShareByte(j, b, c, block_size) ==
  IF c = k THEN 0
  ELSE Xor(Mul(enc_matrix[j * k + c], input[c * block_size + b]),
           RefShareByte(j, b, c + 1, block_size))

InputSize == Cardinality(DOMAIN input)

(* C2 as stated: for an input whose length is a multiple of k, encode calls *)
(* the callback exactly n times; call j carries index j, total n and length *)
(* size/k; its data is slice j of the input for j < k and the matrix       *)
(* combination of the input blocks for j >= k.                             *)
EncodeEmitsShares ==
  (enc # "idle" /\ k >= 1 /\ InputSize % k = 0) =>
    /\ enc = "done"
    /\ Len(encOut) = n
    /\ \A j \in 0..(n - 1) :
         /\ encOut[j + 1].id = j
         /\ encOut[j + 1].total = n
         /\ encOut[j + 1].len = InputSize \div k
         /\ DOMAIN encOut[j + 1].data = 0..((InputSize \div k) - 1)
         /\ \A b \in 0..((InputSize \div k) - 1) :
              encOut[j + 1].data[b] =
                IF j < k THEN input[j * (InputSize \div k) + b]
                ELSE RefShareByte(j, b, 0, InputSize \div k)

EncodeEmitsSharesWitness ==
  /\ enc = "done"
  /\ k >= 2
  /\ n >= k + 2
  /\ InputSize = k * MaxBlock
  /\ encOut[n].data # Zeros(MaxBlock)

(* C3 as stated: a decode call given at least k shares of which one has an *)
(* index >= n ends with invalid-index, never successfully.                 *)
InvalidIndexAlwaysRejected ==
  (DecodeCalled /\ ~DecodeRunning /\ Cardinality(Supplied) >= k /\ ~AllValid) =>
    dpc = "invalid-index"

(* C5 as stated: a decode call given at least k shares, all with an index  *)
(* < n, does not fail, never emits a position twice, and when it is done   *)
(* it has made exactly k calls, one for each position in [0,k), each with  *)
(* total k and length share_size.                                          *)
EachPositionOnce ==
  (DecodeCalled /\ Cardinality(Supplied) >= k /\ AllValid) =>
    /\ dpc \in {"select", "invert", "recover", "done"}
    /\ \A x \in 1..Len(decOut) :
         /\ decOut[x].id \in 0..(k - 1)
         /\ Cardinality(EmittedAt(decOut[x].id)) = 1
         /\ decOut[x].total = k
         /\ decOut[x].len = share_size
    /\ dpc = "done" =>
         /\ Len(decOut) = k
         /\ \A i \in 0..(k - 1) : Cardinality(EmittedAt(i)) = 1

EachPositionOnceWitness ==
  /\ dpc = "done"
  /\ Cardinality(Supplied) = k + 1
  /\ AllValid
  /\ \E i \in 0..(k - 1) : indexes[i] >= k
  /\ \E i \in 0..(k - 1) : indexes[i] < k

(* C6: a decode call given fewer than k shares ends with                   *)
(* insufficient-shares and the callback has not been called, and no other  *)
(* call ends that way.                                                     *)
InsufficientSharesNoOutput ==
  /\ (DecodeCalled /\ Cardinality(Supplied) < k) =>
       (dpc = "insufficient-shares" /\ decOut = <<>>)
  /\ dpc = "insufficient-shares" => Cardinality(Supplied) < k

InsufficientSharesWitness ==
  /\ dpc = "insufficient-shares"
  /\ k >= 2
  /\ \E id \in Supplied : id < k

(* C7 as stated: Construct(k, n) returns a configuration exactly when      *)
(* 1 <= k <= n <= 256 and fails with invalid-parameters when k > 256,      *)
(* n > 256 or k > n, so every configuration has 1 <= k <= n <= 256.        *)
ConstructExactlyWhenValid ==
  cfg # "none" =>
    /\ cfg = "ok" <=> (1 <= k /\ k <= n /\ n <= 256)
    /\ (k > 256 \/ n > 256 \/ k > n) => cfg = "invalid-parameters"

(* C8: during the selection loop and up to the call of invert_matrix only  *)
(* blocks whose selected share is primary are emitted, and all of them     *)
(* have been emitted when inversion starts; after it, the blocks emitted   *)
(* are those whose selected share is not primary, in strictly increasing   *)
(* position order, behind every directly emitted block.                    *)
Direct(x) == indexes[decOut[x].id] < k

EmissionOrder ==
  (DecodeCalled /\ Cardinality(Supplied) >= k /\ AllValid) =>
    /\ dpc \in {"select", "invert"} =>
         \A x \in 1..Len(decOut) : decOut[x].id < di /\ Direct(x)
    /\ dpc \in {"invert", "recover", "done"} =>
         \A i \in 0..(k - 1) : indexes[i] < k => EmittedAt(i) # {}
    /\ dpc \in {"recover", "done"} =>
         \A x, y \in 1..Len(decOut) :
           (x < y /\ ~Direct(x)) => (~Direct(y) /\ decOut[x].id < decOut[y].id)
    /\ dpc = "recover" => \A x \in 1..Len(decOut) : Direct(x) \/ decOut[x].id < di

EmissionOrderWitness ==
  /\ dpc = "done"
  /\ AllValid
  /\ Cardinality({x \in 1..Len(decOut) : ~Direct(x)}) >= 2
  /\ \E x \in 1..Len(decOut) : Direct(x)

(* C10: a decode call given at least k shares, all with an index < n,      *)
(* never ends in the failures of invert_matrix.                            *)
DecodeNeverSingular ==
  (DecodeCalled /\ Cardinality(Supplied) >= k /\ AllValid) =>
    dpc \notin {"pivot not found", "singular matrix"}

DecodeNeverSingularWitness ==
  /\ dpc = "recover"
  /\ AllValid
  /\ Cardinality({i \in 0..(k - 1) : indexes[i] >= k}) >= 2
  /\ m_dec # Identity(k)

(***************************************************************************)
(* init_fec, lines 136-151, called by several threads, each from the first *)
(* statement of a fec_code constructor (line 421).  fec_initialized and    *)
(* GF_MUL_TABLE are plain statics: every read and write is a step of its   *)
(* own thread.  The table is modelled on the indices below TableDim, a row *)
(* of the first loop (lines 144-146) per step and an index of the second   *)
(* loop (lines 148-149) per step.                                          *)
(*   tpc[t] = "idle"     : before the call                                 *)
(*   tpc[t] = "set"      : inside the if, before line 142                  *)
(*   tpc[t] = "fill"     : in the first loop, about to run i = ti[t]       *)
(*   tpc[t] = "zero"     : in the second loop, about to run i = ti[t]      *)
(*   tpc[t] = "returned" : back in the constructor, free to read the table *)
(***************************************************************************)
(* Line 140. *)
InitCheck ==
  \E t \in Threads :
    /\ tpc[t] = "idle"
    /\ tpc' = [tpc EXCEPT ![t] = IF fec_initialized THEN "returned" ELSE "set"]
    /\ did_init' = [did_init EXCEPT ![t] = ~fec_initialized]
    /\ UNCHANGED <<fec_initialized, GF_MUL_TABLE, ti, cfgVars, encVars, decVars, invVars, amVars>>

(* Line 142. *)
InitSetFlag ==
  \E t \in Threads :
    /\ tpc[t] = "set"
    /\ fec_initialized' = TRUE
    /\ tpc' = [tpc EXCEPT ![t] = "fill"]
    /\ ti' = [ti EXCEPT ![t] = 0]
    /\ UNCHANGED <<GF_MUL_TABLE, did_init, cfgVars, encVars, decVars, invVars, amVars>>

(* Lines 144-146, row i = ti[t]. *)
InitFillRow ==
  \E t \in Threads :
    /\ tpc[t] = "fill"
    /\ GF_MUL_TABLE' =
         [GF_MUL_TABLE EXCEPT ![ti[t]] = [j \in 0..(TableDim - 1) |-> RawEntry(ti[t], j)]]
    /\ ti' = [ti EXCEPT ![t] = IF ti[t] + 1 = TableDim THEN 0 ELSE ti[t] + 1]
    /\ tpc' = [tpc EXCEPT ![t] = IF ti[t] + 1 = TableDim THEN "zero" ELSE "fill"]
    /\ UNCHANGED <<fec_initialized, did_init, cfgVars, encVars, decVars, invVars, amVars>>

(* Lines 148-149, index i = ti[t]. *)
InitZero ==
  \E t \in Threads :
    /\ tpc[t] = "zero"
    /\ GF_MUL_TABLE' =
         [i \in 0..(TableDim - 1) |->
            [j \in 0..(TableDim - 1) |->
               IF (i = 0 /\ j = ti[t]) \/ (i = ti[t] /\ j = 0)
               THEN 0 ELSE GF_MUL_TABLE[i][j]]]
    /\ ti' = [ti EXCEPT ![t] = IF ti[t] + 1 = TableDim THEN 0 ELSE ti[t] + 1]
    /\ tpc' = [tpc EXCEPT ![t] = IF ti[t] + 1 = TableDim THEN "returned" ELSE "zero"]
    /\ UNCHANGED <<fec_initialized, did_init, cfgVars, encVars, decVars, invVars, amVars>>

NextTables ==
  \/ InitCheck
  \/ InitSetFlag
  \/ InitFillRow
  \/ InitZero

SpecTables == Init /\ [][NextTables]_vars

(* The table every reader is meant to see. *)
FinalTable == [i \in 0..(TableDim - 1) |-> [j \in 0..(TableDim - 1) |-> Mul(i, j)]]

(* C4 as stated: whatever the interleaving of the threads' first calls,    *)
(* at most one thread runs the table computation, exactly one has run it   *)
(* once a thread is back from init_fec, and no thread is back from         *)
(* init_fec while the table is not completely filled.                      *)
InitRaceFree ==
  /\ Cardinality({t \in Threads : did_init[t]}) <= 1
  /\ \A t \in Threads :
       tpc[t] = "returned" =>
         /\ Cardinality({u \in Threads : did_init[u]}) = 1
         /\ GF_MUL_TABLE = FinalTable

(***************************************************************************)
(* invert_matrix called on its own with a matrix of the caller's choice.   *)
(***************************************************************************)
MaxDim == 3
MatrixBytes == {0, 1, 2}

InitInvertCall ==
  /\ inv_k \in 1..MaxDim
  /\ inv_src \in [0..(inv_k * inv_k - 1) -> MatrixBytes]
  /\ inv_res = NotInverted

InvertCall ==
  /\ inv_res = NotInverted
  /\ inv_res' = invert_matrix(inv_src, inv_k)
  /\ UNCHANGED <<inv_k, inv_src, cfgVars, encVars, decVars, initVars, amVars>>

NextInvert == InvertCall

InitInvertSpec == InitMain /\ InitTables /\ InitInvertCall /\ InitAddmul

SpecInvert == InitInvertSpec /\ [][NextInvert]_vars

(* The matrix m without row 0 and column col. *)
Minor(m, dim, col) ==
  [x \in 0..((dim - 1) * (dim - 1) - 1) |->
     LET r == (x \div (dim - 1)) + 1
         c0 == x % (dim - 1)
     IN  m[r * dim + (IF c0 < col THEN c0 ELSE c0 + 1)]]

(* The determinant over GF(2^8), expanded along row 0 (signs vanish in     *)
(* characteristic 2): a matrix is invertible exactly when it is not 0.     *)
RECURSIVE Det(_, _)
RECURSIVE DetExpand(_, _, _)
DetExpand(m, dim, col) ==
  IF col = dim THEN 0
  ELSE Xor(Mul(m[col], Det(Minor(m, dim, col), dim - 1)), DetExpand(m, dim, col + 1))

Det(m, dim) == IF dim = 1 THEN m[0] ELSE DetExpand(m, dim, 0)

(* C9 as stated: on every matrix that is invertible over GF(2^8)           *)
(* invert_matrix raises nothing and leaves a matrix R with                 *)
(* M_original * R = identity.                                              *)
InvertIsInverse ==
  (inv_res # NotInverted /\ Det(inv_src, inv_k) # 0) =>
    /\ inv_res.err = "none"
    /\ MatMul(inv_src, inv_res.src, inv_k) = Identity(inv_k)

(***************************************************************************)
(* addmul on its own, lines 164-195: one call on every length up to        *)
(* MaxLen, so that the unrolled loop runs zero, one and two times and the  *)
(* tail loop runs 0 to 15 times.                                           *)
(***************************************************************************)
MaxLen == 33
AddmulCoeffs == {0, 1, 2, 255}
AddmulSeeds == {0, 101}

(* The bytes of dst before the call; a buffer of capacity 0 is the null    *)
(* &v[0] of an empty vector, as at lines 486-489 and 573-575.              *)
DstOf(cap, seed) == [j \in 0..(cap - 1) |-> (seed + 11 * j + 5) % 256]

InitAddmulCall ==
  \E sz \in 0..MaxLen, c \in AddmulCoeffs, extra \in 0..1, seed \in AddmulSeeds :
    /\ am_sz = sz
    /\ am_c = c
    /\ am_src = InputOf(sz, seed)
    /\ am_dst = DstOf(sz + extra, seed)
    /\ am_res = am_dst
    /\ am_pc = "called"

AddmulCall ==
  /\ am_pc = "called"
  /\ \/ /\ am_res' = addmul(am_dst, am_src, am_c, am_sz)
        /\ am_pc' = "returned"
     \/ /\ AddmulFaults(am_dst, am_c, am_sz)
        /\ am_pc' = "crash"
        /\ UNCHANGED am_res
  /\ UNCHANGED <<am_dst, am_src, am_c, am_sz, cfgVars, encVars, decVars,
                 initVars, invVars>>

NextAddmul == AddmulCall

InitAddmulSpec == InitMain /\ InitTables /\ InitInvert /\ InitAddmulCall

SpecAddmul == InitAddmulSpec /\ [][NextAddmul]_vars

(* The reference loop: dst[j] ^= mul(c, src[j]) for j in [0, sz). *)
AddmulReference(dst, src, c, sz) ==
  [j \in DOMAIN dst |-> IF j < sz THEN Xor(dst[j], Mul(c, src[j])) ELSE dst[j]]

(* C11 as stated: for every length, coefficient and pair of buffers the    *)
(* call of addmul returns, dst then holds old dst[j] XOR mul(c, src[j])    *)
(* for every j < len, no byte at an index >= len is written, and with      *)
(* c = 0 dst is left unchanged.                                            *)
AddmulEqualsReference ==
  am_pc \in {"returned", "crash"} =>
    /\ am_pc = "returned"
    /\ am_res = AddmulReference(am_dst, am_src, am_c, am_sz)
    /\ am_c = 0 => am_res = am_dst

(* The same on every call whose dst is not the buffer of an empty vector.  *)
AddmulEqualsReferenceOnBuffers ==
  DOMAIN am_dst # {} => AddmulEqualsReference

====
